---- MODULE Spec2Model ----
(***************************************************************************)
(* State-machine model of the two Modbus inverter adapters of this         *)
(* repository: AnernProtocol (src/anern.py) and DeyeModbusProtocol         *)
(* (src/deye_protocol.py).  The two classes share their code line for line *)
(* and differ in their tables; `family` selects the class.                 *)
(*                                                                         *)
(* The transport (pymodbus client) is the environment: every call into it  *)
(* returns one of the outcomes it can produce, chosen nondeterministically.*)
(***************************************************************************)
EXTENDS Integers, Sequences, FiniteSets, TLC

(***************************************************************************)
(* Bounds of the model.                                                    *)
(***************************************************************************)
MaxRetries == 3     \* config "retries" ranges over 0..MaxRetries
MaxHandles == 2     \* the environment keeps at most this many transports open
MaxWord == 1        \* register words of a response range over 0..MaxWord
MaxLenSkew == 1     \* a response holds count-MaxLenSkew .. count+MaxLenSkew words
MaxStatusNoise == 0 \* transport calls of one get_status call that are not nominal
MaxCentis == 60     \* the values of the codec specification are 0.00 .. MaxCentis/100
MaxThreads == 2     \* threads that call into one adapter

(***************************************************************************)
(* Static tables.  factor is kept as the exact rational num/den            *)
(* (1, 0.1, 0.01); the unit of the temperatures is written degC.           *)
(***************************************************************************)
AnernRegisters ==
  <<
    [name |-> "status", address |-> 0, size |-> 1, factor |-> [num |-> 1, den |-> 1], unit |-> ""],
    [name |-> "operation_mode", address |-> 1, size |-> 1, factor |-> [num |-> 1, den |-> 1], unit |-> ""],
    [name |-> "grid_voltage", address |-> 256, size |-> 1, factor |-> [num |-> 1, den |-> 10], unit |-> "V"],
    [name |-> "grid_frequency", address |-> 257, size |-> 1, factor |-> [num |-> 1, den |-> 100], unit |-> "Hz"],
    [name |-> "output_voltage", address |-> 258, size |-> 1, factor |-> [num |-> 1, den |-> 10], unit |-> "V"],
    [name |-> "output_frequency", address |-> 259, size |-> 1, factor |-> [num |-> 1, den |-> 100], unit |-> "Hz"],
    [name |-> "output_power", address |-> 260, size |-> 1, factor |-> [num |-> 1, den |-> 1], unit |-> "W"],
    [name |-> "output_current", address |-> 261, size |-> 1, factor |-> [num |-> 1, den |-> 10], unit |-> "A"],
    [name |-> "load_percent", address |-> 262, size |-> 1, factor |-> [num |-> 1, den |-> 1], unit |-> "%"],
    [name |-> "bus_voltage", address |-> 272, size |-> 1, factor |-> [num |-> 1, den |-> 10], unit |-> "V"],
    [name |-> "pv_voltage", address |-> 273, size |-> 1, factor |-> [num |-> 1, den |-> 10], unit |-> "V"],
    [name |-> "pv_charging_current", address |-> 274, size |-> 1, factor |-> [num |-> 1, den |-> 10], unit |-> "A"],
    [name |-> "pv_power", address |-> 275, size |-> 1, factor |-> [num |-> 1, den |-> 1], unit |-> "W"],
    [name |-> "battery_voltage", address |-> 276, size |-> 1, factor |-> [num |-> 1, den |-> 10], unit |-> "V"],
    [name |-> "battery_current", address |-> 277, size |-> 1, factor |-> [num |-> 1, den |-> 10], unit |-> "A"],
    [name |-> "battery_temperature", address |-> 278, size |-> 1, factor |-> [num |-> 1, den |-> 1], unit |-> "degC"],
    [name |-> "inverter_temperature", address |-> 279, size |-> 1, factor |-> [num |-> 1, den |-> 1], unit |-> "degC"],
    [name |-> "ambient_temperature", address |-> 280, size |-> 1, factor |-> [num |-> 1, den |-> 1], unit |-> "degC"],
    [name |-> "battery_soc", address |-> 288, size |-> 1, factor |-> [num |-> 1, den |-> 1], unit |-> "%"],
    [name |-> "error_flags_1", address |-> 512, size |-> 1, factor |-> [num |-> 1, den |-> 1], unit |-> ""],
    [name |-> "error_flags_2", address |-> 513, size |-> 1, factor |-> [num |-> 1, den |-> 1], unit |-> ""],
    [name |-> "max_charging_current", address |-> 768, size |-> 1, factor |-> [num |-> 1, den |-> 1], unit |-> "A"],
    [name |-> "max_ac_charging_current", address |-> 769, size |-> 1, factor |-> [num |-> 1, den |-> 1], unit |-> "A"],
    [name |-> "max_pv_charging_current", address |-> 770, size |-> 1, factor |-> [num |-> 1, den |-> 1], unit |-> "A"],
    [name |-> "charge_source_priority", address |-> 771, size |-> 1, factor |-> [num |-> 1, den |-> 1], unit |-> ""],
    [name |-> "output_source_priority", address |-> 772, size |-> 1, factor |-> [num |-> 1, den |-> 1], unit |-> ""],
    [name |-> "battery_cutoff_voltage", address |-> 773, size |-> 1, factor |-> [num |-> 1, den |-> 10], unit |-> "V"],
    [name |-> "battery_reconnect_voltage", address |-> 774, size |-> 1, factor |-> [num |-> 1, den |-> 10], unit |-> "V"]
  >>

DeyeRegisters ==
  <<
    [name |-> "grid_voltage", address |-> 4, size |-> 1, factor |-> [num |-> 1, den |-> 10], unit |-> "V"],
    [name |-> "grid_current", address |-> 5, size |-> 1, factor |-> [num |-> 1, den |-> 10], unit |-> "A"],
    [name |-> "grid_power", address |-> 6, size |-> 1, factor |-> [num |-> 1, den |-> 1], unit |-> "W"],
    [name |-> "pv1_voltage", address |-> 7, size |-> 1, factor |-> [num |-> 1, den |-> 10], unit |-> "V"],
    [name |-> "pv1_current", address |-> 8, size |-> 1, factor |-> [num |-> 1, den |-> 10], unit |-> "A"],
    [name |-> "pv1_power", address |-> 9, size |-> 1, factor |-> [num |-> 1, den |-> 1], unit |-> "W"],
    [name |-> "pv2_voltage", address |-> 10, size |-> 1, factor |-> [num |-> 1, den |-> 10], unit |-> "V"],
    [name |-> "pv2_current", address |-> 11, size |-> 1, factor |-> [num |-> 1, den |-> 10], unit |-> "A"],
    [name |-> "pv2_power", address |-> 12, size |-> 1, factor |-> [num |-> 1, den |-> 1], unit |-> "W"],
    [name |-> "battery_voltage", address |-> 17, size |-> 1, factor |-> [num |-> 1, den |-> 10], unit |-> "V"],
    [name |-> "battery_current", address |-> 18, size |-> 1, factor |-> [num |-> 1, den |-> 10], unit |-> "A"],
    [name |-> "battery_power", address |-> 19, size |-> 1, factor |-> [num |-> 1, den |-> 1], unit |-> "W"],
    [name |-> "battery_soc", address |-> 20, size |-> 1, factor |-> [num |-> 1, den |-> 1], unit |-> "%"],
    [name |-> "load_voltage", address |-> 21, size |-> 1, factor |-> [num |-> 1, den |-> 10], unit |-> "V"],
    [name |-> "load_current", address |-> 22, size |-> 1, factor |-> [num |-> 1, den |-> 10], unit |-> "A"],
    [name |-> "load_power", address |-> 23, size |-> 1, factor |-> [num |-> 1, den |-> 1], unit |-> "W"],
    [name |-> "inverter_temperature", address |-> 24, size |-> 1, factor |-> [num |-> 1, den |-> 1], unit |-> "degC"],
    [name |-> "operation_mode", address |-> 256, size |-> 1, factor |-> [num |-> 1, den |-> 1], unit |-> ""],
    [name |-> "charge_source_priority", address |-> 257, size |-> 1, factor |-> [num |-> 1, den |-> 1], unit |-> ""],
    [name |-> "output_source_priority", address |-> 258, size |-> 1, factor |-> [num |-> 1, den |-> 1], unit |-> ""],
    [name |-> "max_charging_current", address |-> 259, size |-> 1, factor |-> [num |-> 1, den |-> 1], unit |-> "A"],
    [name |-> "max_ac_charging_current", address |-> 260, size |-> 1, factor |-> [num |-> 1, den |-> 1], unit |-> "A"],
    [name |-> "battery_type", address |-> 261, size |-> 1, factor |-> [num |-> 1, den |-> 1], unit |-> ""],
    [name |-> "float_charging_voltage", address |-> 262, size |-> 1, factor |-> [num |-> 1, den |-> 10], unit |-> "V"],
    [name |-> "bulk_charging_voltage", address |-> 263, size |-> 1, factor |-> [num |-> 1, den |-> 10], unit |-> "V"],
    [name |-> "battery_cutoff_voltage", address |-> 264, size |-> 1, factor |-> [num |-> 1, den |-> 10], unit |-> "V"],
    [name |-> "max_parallel_units", address |-> 265, size |-> 1, factor |-> [num |-> 1, den |-> 1], unit |-> ""],
    [name |-> "machine_type", address |-> 266, size |-> 1, factor |-> [num |-> 1, den |-> 1], unit |-> ""],
    [name |-> "topology", address |-> 267, size |-> 1, factor |-> [num |-> 1, den |-> 1], unit |-> ""],
    [name |-> "output_model_setting", address |-> 268, size |-> 1, factor |-> [num |-> 1, den |-> 1], unit |-> ""],
    [name |-> "solar_power_priority", address |-> 269, size |-> 1, factor |-> [num |-> 1, den |-> 1], unit |-> ""],
    [name |-> "mppt_strings", address |-> 270, size |-> 1, factor |-> [num |-> 1, den |-> 1], unit |-> ""],
    [name |-> "machine_model", address |-> 271, size |-> 1, factor |-> [num |-> 1, den |-> 1], unit |-> ""],
    [name |-> "ac_input_voltage_range", address |-> 272, size |-> 1, factor |-> [num |-> 1, den |-> 1], unit |-> ""],
    [name |-> "output_voltage", address |-> 273, size |-> 1, factor |-> [num |-> 1, den |-> 10], unit |-> "V"],
    [name |-> "output_frequency", address |-> 274, size |-> 1, factor |-> [num |-> 1, den |-> 10], unit |-> "Hz"],
    [name |-> "battery_reconnect_voltage", address |-> 275, size |-> 1, factor |-> [num |-> 1, den |-> 10], unit |-> "V"],
    [name |-> "battery_under_voltage_alarm", address |-> 276, size |-> 1, factor |-> [num |-> 1, den |-> 10], unit |-> "V"],
    [name |-> "discharge_limit_current", address |-> 277, size |-> 1, factor |-> [num |-> 1, den |-> 1], unit |-> "A"],
    [name |-> "battery_equalization_enable", address |-> 278, size |-> 1, factor |-> [num |-> 1, den |-> 1], unit |-> ""],
    [name |-> "battery_equalization_voltage", address |-> 279, size |-> 1, factor |-> [num |-> 1, den |-> 10], unit |-> "V"],
    [name |-> "battery_equalization_time", address |-> 280, size |-> 1, factor |-> [num |-> 1, den |-> 1], unit |-> "min"],
    [name |-> "battery_equalization_timeout", address |-> 281, size |-> 1, factor |-> [num |-> 1, den |-> 1], unit |-> "min"],
    [name |-> "battery_equalization_interval", address |-> 282, size |-> 1, factor |-> [num |-> 1, den |-> 1], unit |-> "day"],
    [name |-> "battery_equalization_boost", address |-> 283, size |-> 1, factor |-> [num |-> 1, den |-> 1], unit |-> ""],
    [name |-> "pv_day_energy", address |-> 512, size |-> 1, factor |-> [num |-> 1, den |-> 10], unit |-> "kWh"],
    [name |-> "pv_month_energy", address |-> 513, size |-> 1, factor |-> [num |-> 1, den |-> 10], unit |-> "kWh"],
    [name |-> "pv_year_energy", address |-> 514, size |-> 1, factor |-> [num |-> 1, den |-> 10], unit |-> "kWh"],
    [name |-> "pv_total_energy", address |-> 515, size |-> 2, factor |-> [num |-> 1, den |-> 10], unit |-> "kWh"],
    [name |-> "today_energy", address |-> 517, size |-> 1, factor |-> [num |-> 1, den |-> 10], unit |-> "kWh"],
    [name |-> "month_energy", address |-> 518, size |-> 1, factor |-> [num |-> 1, den |-> 10], unit |-> "kWh"],
    [name |-> "year_energy", address |-> 519, size |-> 1, factor |-> [num |-> 1, den |-> 10], unit |-> "kWh"],
    [name |-> "total_energy", address |-> 520, size |-> 2, factor |-> [num |-> 1, den |-> 10], unit |-> "kWh"],
    [name |-> "co2_reduction", address |-> 522, size |-> 2, factor |-> [num |-> 1, den |-> 10], unit |-> "t"],
    [name |-> "net_current", address |-> 524, size |-> 1, factor |-> [num |-> 1, den |-> 10], unit |-> "A"],
    [name |-> "time_now", address |-> 525, size |-> 3, factor |-> [num |-> 1, den |-> 1], unit |-> ""],
    [name |-> "error_codes", address |-> 768, size |-> 4, factor |-> [num |-> 1, den |-> 1], unit |-> ""],
    [name |-> "warning_codes", address |-> 772, size |-> 4, factor |-> [num |-> 1, den |-> 1], unit |-> ""]
  >>

Families == {"anern", "deye"}

Registers(f) == IF f = "anern" THEN AnernRegisters ELSE DeyeRegisters

ParameterNames(f) == {Registers(f)[i].name : i \in 1..Len(Registers(f))}

REGISTER_MAP(f, n) ==
  LET i == CHOOSE j \in 1..Len(Registers(f)) : Registers(f)[j].name = n
  IN  Registers(f)[i]

AnernOperationModes ==
  << <<"STANDBY", 0>>, <<"LINE_MODE", 1>>, <<"BATTERY_MODE", 2>>, <<"FAULT_MODE", 3>>,
     <<"OFF_GRID_MODE", 4>>, <<"BYPASS_MODE", 5>>, <<"SELF_TEST_MODE", 6>> >>

AnernChargePriorities ==
  << <<"PV_FIRST", 0>>, <<"PV_AND_UTILITY", 1>>, <<"ONLY_PV", 2>> >>

AnernOutputPriorities ==
  << <<"UTILITY_FIRST", 0>>, <<"SOLAR_FIRST", 1>>, <<"SOLAR_AND_UTILITY", 2>>,
     <<"ONLY_SOLAR", 3>> >>

DeyeOperationModes ==
  << <<"POWER_ON", 0>>, <<"STANDBY", 1>>, <<"BYPASS", 2>>, <<"BATTERY", 3>>,
     <<"FAULT", 4>>, <<"HYBRID", 5>>, <<"CHARGE", 6>> >>

DeyeChargePriorities ==
  << <<"SOLAR_FIRST", 0>>, <<"GRID_FIRST", 1>>, <<"SOLAR_AND_GRID", 2>>,
     <<"ONLY_SOLAR", 3>> >>

DeyeOutputPriorities ==
  << <<"GRID_FIRST", 0>>, <<"SOLAR_FIRST", 1>>, <<"SBU_PRIORITY", 2>> >>

\* (a variant with one mode table for both families)
OPERATION_MODES_shared(f) == AnernOperationModes

OPERATION_MODES(f) == IF f = "anern" THEN AnernOperationModes ELSE DeyeOperationModes

CHARGE_PRIORITIES(f) == IF f = "anern" THEN AnernChargePriorities ELSE DeyeChargePriorities

OUTPUT_PRIORITIES(f) == IF f = "anern" THEN AnernOutputPriorities ELSE DeyeOutputPriorities

\* `label in table` and `table[label]` of a Python dict
Labels(table) == {table[i][1] : i \in 1..Len(table)}

CodeOf(table, label) ==
  LET i == CHOOSE j \in 1..Len(table) : table[j][1] = label IN table[i][2]

(***************************************************************************)
(* State.                                                                  *)
(*   family, retries        the class instantiated and config["retries"]   *)
(*   is_connected, client   the adapter's fields; client is None or the    *)
(*                          identity of a pymodbus client object           *)
(*   opened                 the client objects whose transport is open     *)
(*                          (opened by connect() and not closed since)     *)
(*   pc                     "idle" before a public call, "loop" inside the *)
(*                          for loop of read_register / write_register,    *)
(*                          "status" between two reads of get_status,      *)
(*                          "done" when the public call has returned       *)
(*   call                   the public call being served (or served last)  *)
(*                          and the register transaction it runs           *)
(*   trace                  what the adapter asked of the transport, and   *)
(*                          each sleep, during the current register call   *)
(*   ret                    what the last public call returned             *)
(*   pre                    the adapter's fields when the public method    *)
(*                          (or the read_parameter call that get_status    *)
(*                          makes) was entered                             *)
(*   results                get_status: what the reads made so far         *)
(*                          returned, by parameter name                    *)
(*   noise                  get_status: how many transport calls of this   *)
(*                          call answered otherwise than with the nominal  *)
(*                          response (count words, all zero)               *)
(***************************************************************************)
VARIABLES family, retries, is_connected, client, opened, pc, call, trace, ret, pre,
          results, noise, threads, unit_id

vars == <<family, retries, is_connected, client, opened, pc, call, trace, ret, pre,
          results, noise, threads, unit_id>>

None == 0

Handles == 1..(MaxHandles + 2)

Words == 0..MaxWord

(***************************************************************************)
(* Python values.  A return value is one record shape for all kinds:       *)
(*   "none"    None                                                        *)
(*   "bool"    True / False in b                                           *)
(*   "value"   {"value": num/den, "unit": unit}                            *)
(*   "wide"    {"value": (sum of limbs[i] * 2^(16*(i-1))) / den, "unit":   *)
(*             unit}, of an integer too wide for one machine word, kept as *)
(*             its 16-bit limbs, least significant first                   *)
(*   "text"    {"value": text, "unit": unit}                               *)
(*   "status"  the dict built by get_status (in results)                   *)
(*   "raised"  no return: an exception left the method                     *)
(*   "pending" the call has not returned yet                               *)
(***************************************************************************)
R(kind, b, num, den, text, unit) ==
  [kind |-> kind, b |-> b, num |-> num, den |-> den, limbs |-> <<>>, text |-> text,
   unit |-> unit]

Pending == R("pending", FALSE, 0, 1, "", "")

RetNone == R("none", FALSE, 0, 1, "", "")

RetBool(b) == R("bool", b, 0, 1, "", "")

RetValue(num, den, unit) == R("value", FALSE, num, den, "", unit)

RetText(text, unit) == R("text", FALSE, 0, 1, text, unit)

RetWide(limbs, unit) == [R("wide", FALSE, 0, 1, "", unit) EXCEPT !.limbs = limbs]

RetWideScaled(limbs, den, unit) == [RetWide(limbs, unit) EXCEPT !.den = den]

RetStatus == R("status", FALSE, 0, 1, "", "")

Raised == R("raised", FALSE, 0, 1, "", "")

\* an argument value: the number c/100, or an object that is not a number
Num(c) == [t |-> "num", c |-> c]

Str == [t |-> "str", c |-> 0]

NoVal == [t |-> "none", c |-> 0]

\* a list passed where a dict key is expected: `x in dict` raises TypeError
Unhashable == "[unhashable]"

\* config.get("unit_id", 1): src/anern.py 105
DefaultUnitId == 1

\* fn, address, count, value: the register call (read_register(address, count) or
\* write_register(address, value)); attempt: the loop variable; registers: the
\* registers of the response the loop returned
Call(op, name, val, fn, address, count, value, attempt) ==
  [op |-> op, name |-> name, val |-> val, fn |-> fn, address |-> address,
   count |-> count, value |-> value, attempt |-> attempt, registers |-> <<>>,
   label |-> "", unit |-> None]

\* the call, made by a set_* method for the label it was given
Labelled(c, label) == [c EXCEPT !.label = label]

NoTxn(op, name, val) == Call(op, name, val, "none", 0, 0, 0, 0)

Snapshot == [is_connected |-> is_connected, client |-> client, opened |-> opened]

(***************************************************************************)
(* connect(): src/anern.py 109-143, src/deye_protocol.py 139-173.          *)
(* c is what the transport does: the constructor raises ("ctor_raise"),    *)
(* client.connect() returns True ("ok"), returns False ("fail") or raises  *)
(* ("raise").  A new client object is built on every call.                 *)
(***************************************************************************)
NewClient(cl, op) ==
  CHOOSE h \in Handles :
    /\ h \notin (op \cup {cl})
    /\ \A g \in Handles : g \notin (op \cup {cl}) => h <= g

ConnectOutcomes(op) ==
  IF Cardinality(op) < MaxHandles
  THEN {"ok", "fail", "raise", "ctor_raise"}
  ELSE {"fail", "raise", "ctor_raise"}

connect(ic, cl, op, c) ==
  LET h == NewClient(cl, op) IN
  CASE c = "ctor_raise" ->
         [is_connected |-> FALSE, client |-> cl, opened |-> op, result |-> FALSE,
          event |-> "connect_ctor_raise"]
    [] c = "ok" ->
         [is_connected |-> TRUE, client |-> h, opened |-> op \cup {h}, result |-> TRUE,
          event |-> "connect_ok"]
    [] c = "fail" ->
         [is_connected |-> FALSE, client |-> h, opened |-> op, result |-> FALSE,
          event |-> "connect_fail"]
    [] c = "raise" ->
         [is_connected |-> FALSE, client |-> h, opened |-> op, result |-> FALSE,
          event |-> "connect_raise"]

(***************************************************************************)
(* disconnect(): src/anern.py 145-152, src/deye_protocol.py 175-182.       *)
(* d is what client.close() does: returns ("ok") or raises ("raise").      *)
(***************************************************************************)
CloseOutcomes == {"ok", "raise"}

\* (a variant that closes the transport and forgets to clear is_connected)
disconnect_keeps_flag(ic, cl, op, d) ==
  IF cl # None /\ ic
  THEN IF d = "ok"
       THEN [is_connected |-> ic, opened |-> op \ {cl}, ret |-> RetBool(TRUE),
             trace |-> <<"close_ok">>]
       ELSE [is_connected |-> ic, opened |-> op, ret |-> Raised,
             trace |-> <<"close_raise">>]
  ELSE [is_connected |-> ic, opened |-> op, ret |-> RetBool(FALSE), trace |-> <<>>]

disconnect(ic, cl, op, d) ==
  IF cl # None /\ ic
  THEN IF d = "ok"
       THEN [is_connected |-> FALSE, opened |-> op \ {cl}, ret |-> RetBool(TRUE),
             trace |-> <<"close_ok">>]
       ELSE [is_connected |-> ic, opened |-> op, ret |-> Raised,
             trace |-> <<"close_raise">>]
  ELSE [is_connected |-> ic, opened |-> op, ret |-> RetBool(FALSE), trace |-> <<>>]

(***************************************************************************)
(* read_parameter, after the registers are read: src/anern.py 251-263,     *)
(* src/deye_protocol.py 282-310.  An index past the end of registers       *)
(* raises IndexError, which the except clause turns into None.             *)
(***************************************************************************)
\* (a variant that does not pad)
Pad2_unpadded(n) == ToString(n)

\* f"{n:02d}" of a register word
Pad2(n) == IF n < 10 THEN "0" \o ToString(n) ELSE ToString(n)

\* (a variant that takes the first word as the low half)
combine_low_first(registers) == <<registers[1], registers[2]>>

\* registers[0] << 16 | registers[1], as limbs
combine(registers) == <<registers[2], registers[1]>>

\* (a variant that takes the first word as the most significant)
bitmask_high_first(registers) ==
  [i \in 1..Len(registers) |-> registers[Len(registers) + 1 - i]]

\* value |= reg << (i * 16) over enumerate(registers), as limbs
bitmask(registers) == registers

decode(f, name, registers) ==
  LET info == REGISTER_MAP(f, name)
      n == Len(registers)
  IN  IF f = "deye" /\ name = "time_now"
      THEN IF n >= 3
           THEN RetText(Pad2(registers[1]) \o ":" \o Pad2(registers[2]) \o ":"
                          \o Pad2(registers[3]), "")
           ELSE RetNone
      ELSE IF f = "deye" /\ name \in {"error_codes", "warning_codes"}
      THEN RetWide(bitmask(registers), info.unit)
      ELSE IF info.size = 1
      THEN IF n >= 1
           THEN RetValue(registers[1] * info.factor.num, info.factor.den, info.unit)
           ELSE RetNone
      ELSE IF info.size = 2
      THEN IF n >= 2
           THEN RetWideScaled(combine(registers), info.factor.den, info.unit)
           ELSE RetNone
      ELSE IF n >= 1
           THEN RetValue(registers[1] * info.factor.num, info.factor.den, info.unit)
           ELSE RetNone

(***************************************************************************)
(* Python's float: src/anern.py 253 (registers[0] * factor) and 285        *)
(* (int(value / factor)) compute in IEEE-754 binary64.  A float that is    *)
(* not negative is m * 2^e with m < 2^53 + 1; m is a natural number kept   *)
(* as a sequence of 15-bit limbs, least significant first, without         *)
(* leading zero limbs, so that no intermediate value leaves the 32-bit     *)
(* integers.  Every product and quotient is rounded to 53 significant      *)
(* bits, to nearest, ties to even; no value here is near the overflow or   *)
(* the subnormal range.                                                    *)
(***************************************************************************)
Base == 32768

LimbBits == 15

Mantissa == 53

RECURSIVE Pow2(_)
Pow2(n) == IF n = 0 THEN 1 ELSE 2 * Pow2(n - 1)

RECURSIVE BitLen(_)
BitLen(n) == IF n = 0 THEN 0 ELSE 1 + BitLen(n \div 2)

RECURSIVE BigNorm(_)
BigNorm(a) ==
  IF a = <<>> THEN <<>>
  ELSE IF a[Len(a)] = 0 THEN BigNorm(SubSeq(a, 1, Len(a) - 1)) ELSE a

BigFromInt(n) == BigNorm(<<n % Base, (n \div Base) % Base, n \div (Base * Base)>>)

RECURSIVE BigToInt(_)
BigToInt(a) == IF a = <<>> THEN 0 ELSE Head(a) + Base * BigToInt(Tail(a))

RECURSIVE BigAddC(_, _, _)
BigAddC(a, b, c) ==
  IF a = <<>> /\ b = <<>>
  THEN IF c = 0 THEN <<>> ELSE <<c>>
  ELSE LET x == IF a = <<>> THEN 0 ELSE Head(a)
           y == IF b = <<>> THEN 0 ELSE Head(b)
           s == x + y + c
       IN  <<s % Base>> \o BigAddC(IF a = <<>> THEN <<>> ELSE Tail(a),
                                   IF b = <<>> THEN <<>> ELSE Tail(b), s \div Base)

BigAdd(a, b) == BigAddC(a, b, 0)

\* a - b for a >= b
RECURSIVE BigSubB(_, _, _)
BigSubB(a, b, borrow) ==
  IF a = <<>> THEN <<>>
  ELSE LET y == IF b = <<>> THEN 0 ELSE Head(b)
           d == Head(a) - y - borrow
       IN  <<d % Base>> \o BigSubB(Tail(a), IF b = <<>> THEN <<>> ELSE Tail(b),
                                   IF d < 0 THEN 1 ELSE 0)

BigSub(a, b) == BigNorm(BigSubB(a, b, 0))

RECURSIVE BigCmpAt(_, _, _)
BigCmpAt(a, b, i) ==
  IF i = 0 THEN 0
  ELSE IF a[i] # b[i] THEN (IF a[i] < b[i] THEN -1 ELSE 1)
  ELSE BigCmpAt(a, b, i - 1)

\* -1, 0 or 1 as a < b, a = b or a > b
BigCmp(a, b) ==
  IF Len(a) # Len(b) THEN (IF Len(a) < Len(b) THEN -1 ELSE 1)
  ELSE BigCmpAt(a, b, Len(a))

\* a * s for s < Base
RECURSIVE BigMulSmallC(_, _, _)
BigMulSmallC(a, s, c) ==
  IF a = <<>>
  THEN IF c = 0 THEN <<>> ELSE <<c>>
  ELSE LET p == Head(a) * s + c
       IN  <<p % Base>> \o BigMulSmallC(Tail(a), s, p \div Base)

BigMulSmall(a, s) == BigNorm(BigMulSmallC(a, s, 0))

RECURSIVE BigMul(_, _)
BigMul(a, b) ==
  IF b = <<>> \/ a = <<>> THEN <<>>
  ELSE BigAdd(BigMulSmall(a, Head(b)), BigNorm(<<0>> \o BigMul(a, Tail(b))))

\* a * 2^n
BigShl(a, n) ==
  IF a = <<>> THEN <<>>
  ELSE [i \in 1..(n \div LimbBits) |-> 0] \o BigMulSmall(a, Pow2(n % LimbBits))

\* a \div 2^n
BigShr(a, n) ==
  LET k == n \div LimbBits
      r == n % LimbBits
      b == IF k >= Len(a) THEN <<>> ELSE SubSeq(a, k + 1, Len(a))
  IN  BigNorm([i \in 1..Len(b) |->
                 (b[i] \div Pow2(r))
                 + (IF i < Len(b) THEN (b[i + 1] % Pow2(r)) * Pow2(LimbBits - r) ELSE 0)])

\* a % 2^n
BigLow(a, n) ==
  LET k == n \div LimbBits
      r == n % LimbBits
  IN  IF k >= Len(a) THEN a
      ELSE BigNorm(SubSeq(a, 1, k) \o <<a[k + 1] % Pow2(r)>>)

BigBitLen(a) ==
  IF a = <<>> THEN 0 ELSE LimbBits * (Len(a) - 1) + BitLen(a[Len(a)])

BigBit(a, i) ==
  IF i \div LimbBits >= Len(a) THEN 0
  ELSE (a[(i \div LimbBits) + 1] \div Pow2(i % LimbBits)) % 2

\* the largest digit g below Base with d * g <= r, found bit by bit
RECURSIVE BigDigit(_, _, _, _)
BigDigit(r, d, bit, g) ==
  IF bit < 0 THEN g
  ELSE IF BigCmp(BigMulSmall(d, g + Pow2(bit)), r) <= 0
  THEN BigDigit(r, d, bit - 1, g + Pow2(bit))
  ELSE BigDigit(r, d, bit - 1, g)

\* long division, limb i of n downwards: the quotient and the remainder
RECURSIVE BigDivStep(_, _, _, _, _)
BigDivStep(n, d, i, q, r) ==
  IF i = 0 THEN [q |-> BigNorm(q), r |-> r]
  ELSE LET r2 == BigNorm(<<n[i]>> \o r)
           g == BigDigit(r2, d, LimbBits - 1, 0)
       IN  IF g = 0
           THEN BigDivStep(n, d, i - 1, <<0>> \o q, r2)
           ELSE BigDivStep(n, d, i - 1, <<g>> \o q, BigSub(r2, BigMulSmall(d, g)))

BigDivMod(n, d) == BigDivStep(n, d, Len(n), <<>>, <<>>)

Float(m, e) == [m |-> m, e |-> e]

FloatFromInt(n) == Float(BigFromInt(n), 0)

\* q * 2^e, with sticky when bits below q were lost already: rounded to
\* Mantissa bits, to nearest, ties to even
FloatRound(q, e, sticky) ==
  LET t == BigBitLen(q) - Mantissa IN
  IF t <= 0 THEN Float(q, e)
  ELSE LET hi == BigShr(q, t)
           c == BigCmp(BigLow(q, t), BigShl(<<1>>, t - 1))
           up == c = 1 \/ (c = 0 /\ (sticky \/ BigBit(hi, 0) = 1))
       IN  Float(IF up THEN BigAdd(hi, <<1>>) ELSE hi, e + t)

\* x / y
FloatDiv(x, y) ==
  IF x.m = <<>> THEN Float(<<>>, 0)
  ELSE LET s == Mantissa + 3 + BigBitLen(y.m) - BigBitLen(x.m)
           dm == BigDivMod(BigShl(x.m, s), y.m)
       IN  FloatRound(dm.q, x.e - y.e - s, dm.r # <<>>)

\* x * y
FloatMul(x, y) ==
  IF x.m = <<>> \/ y.m = <<>> THEN Float(<<>>, 0)
  ELSE FloatRound(BigMul(x.m, y.m), x.e + y.e, FALSE)

\* int(x) for x >= 0
FloatInt(x) ==
  IF x.e >= 0 THEN BigToInt(BigShl(x.m, x.e)) ELSE BigToInt(BigShr(x.m, -x.e))

\* the mantissas of x and y at their common exponent
FloatAlign(x, y) ==
  LET e == IF x.e < y.e THEN x.e ELSE y.e
  IN  [x |-> BigShl(x.m, x.e - e), y |-> BigShl(y.m, y.e - e), e |-> e]

\* |x - y|, exactly
FloatDistance(x, y) ==
  LET a == FloatAlign(x, y)
  IN  IF BigCmp(a.x, a.y) >= 0 THEN Float(BigSub(a.x, a.y), a.e)
      ELSE Float(BigSub(a.y, a.x), a.e)

\* x <= y
FloatLeq(x, y) == LET a == FloatAlign(x, y) IN BigCmp(a.x, a.y) <= 0

\* the value c/100 as Python holds it: the float nearest to it
FloatOfHundredths(c) == FloatDiv(FloatFromInt(c), FloatFromInt(100))

\* the factor of a REGISTER_MAP entry: the int 1, or the float 0.1 or 0.01
FloatFactor(factor) ==
  IF factor.den = 1 THEN FloatFromInt(factor.num)
  ELSE FloatDiv(FloatFromInt(factor.num), FloatFromInt(factor.den))

Magnitude(c) == IF c >= 0 THEN c ELSE -c

\* the float that the result {"value": registers[0] * factor} of read_parameter
\* holds; the result record keeps the register as num and the factor as 1/den
FloatValue(r) == FloatMul(FloatFromInt(r.num), FloatFactor([num |-> 1, den |-> r.den]))

(***************************************************************************)
(* write_parameter's conversion: src/anern.py 285, src/deye_protocol.py    *)
(* 332: int(value / factor).  val.c is the value in hundredths; the        *)
(* quotient is the float quotient, and int() truncates it toward zero (a   *)
(* float quotient and the quotient of the opposite value are opposite).    *)
(***************************************************************************)
register_value(val, factor) ==
  LET k == FloatInt(FloatDiv(FloatOfHundredths(Magnitude(val.c)), FloatFactor(factor)))
  IN  IF val.c >= 0 THEN k ELSE -k

(***************************************************************************)
(* The responses of the transport to a read of count registers: a          *)
(* response that is not an error carries any number of words near count.   *)
(***************************************************************************)
RespLens(count) == {n \in (count - MaxLenSkew)..(count + MaxLenSkew) : n >= 0}

Responses(count) ==
  UNION {{[i \in 1..n |-> IF i = 1 THEN a ELSE b] : a \in Words, b \in Words} :
         n \in RespLens(count)}

\* what one transport call does: a response with isError() false ("ok"), a
\* response with isError() true ("error": the device reported an exception
\* code), or a raised exception ("conn_exc": the connection failed or timed
\* out; both except clauses of the loop have the same body)
Outcomes == {"ok", "error", "conn_exc"}

\* the nominal answer to a read or write: no error, count words, all zero
Nominal(o, registers, count) ==
  /\ o = "ok"
  /\ Len(registers) = count
  /\ \A i \in 1..Len(registers) : registers[i] = 0

(***************************************************************************)
(* The decisions of read_register / write_register:                        *)
(* src/anern.py 165-189 and 202-226, src/deye_protocol.py 195-219 and      *)
(* 232-256.                                                                *)
(***************************************************************************)
\* (a variant that connects on every call)
NeedsConnect_always(ic) == TRUE

\* `if not self.is_connected and not self.connect()`: connect() is called
\* when is_connected is False
NeedsConnect(ic) == ~ic

\* (a variant that goes on to the loop whatever connect() returned)
AbortsOnConnect_ignored(result) == FALSE

\* `... and not self.connect(): return None`: the call is given up when
\* connect() returned False
AbortsOnConnect(result) == ~result

\* (a variant that makes one attempt too many)
range_retries_off_by_one(r) == r + 1

\* `for attempt in range(self.retries)`: the number of iterations
range_retries(r) == r

\* (a variant that treats a good response like an error response)
AfterAttempt_ok_continues(o) ==
  CASE o \in {"ok", "error"} -> "continue"
    [] o = "conn_exc" -> "sleep"

\* what the loop body does with the outcome of its transport call
AfterAttempt(o) ==
  CASE o = "ok" -> "return"
    [] o = "error" -> "continue"
    [] o = "conn_exc" -> "sleep"

\* (a variant whose two failure markers are exchanged)
Fail_swapped(fn) == IF fn = "read" THEN RetBool(FALSE) ELSE RetNone

Fail(fn) == IF fn = "read" THEN RetNone ELSE RetBool(FALSE)

EmptyResults == [n \in {} |-> RetNone]

(***************************************************************************)
(* Returning from read_parameter / write_parameter: to the caller, or to   *)
(* get_status when it made the call.                                       *)
(***************************************************************************)
Return(op, name, r) ==
  IF op = "get_status"
  THEN /\ pc' = "status"
       /\ ret' = Pending
       /\ results' = [n \in DOMAIN results \cup {name} |->
                        IF n = name THEN r ELSE results[n]]
  ELSE /\ pc' = "done"
       /\ ret' = r
       /\ UNCHANGED results

\* entry of read_register / write_register, up to the loop
Enter(c0) ==
  IF NeedsConnect(is_connected)
  THEN \E c \in ConnectOutcomes(opened) :
         LET r == connect(is_connected, client, opened, c) IN
         /\ is_connected' = r.is_connected
         /\ client' = r.client
         /\ opened' = r.opened
         /\ trace' = <<r.event>>
         /\ call' = c0
         /\ IF AbortsOnConnect(r.result)
            THEN Return(c0.op, c0.name, Fail(c0.fn))
            ELSE /\ pc' = "loop"
                 /\ ret' = Pending
                 /\ UNCHANGED results
  ELSE /\ UNCHANGED <<is_connected, client, opened>>
       /\ trace' = <<>>
       /\ call' = c0
       /\ pc' = "loop"
       /\ ret' = Pending
       /\ UNCHANGED results

\* (a variant that connects before it looks the name up)
read_parameter_connect_first(op, name) ==
  /\ pre' = Snapshot
  /\ IF name = Unhashable
     THEN /\ pc' = "done"
          /\ ret' = Raised
          /\ call' = NoTxn(op, name, NoVal)
          /\ trace' = <<>>
          /\ UNCHANGED <<is_connected, client, opened, results>>
     ELSE IF name \notin ParameterNames(family)
     THEN /\ Return(op, name, RetNone)
          /\ call' = NoTxn(op, name, NoVal)
          /\ IF NeedsConnect(is_connected)
             THEN \E c \in ConnectOutcomes(opened) :
                    LET r == connect(is_connected, client, opened, c) IN
                    /\ is_connected' = r.is_connected
                    /\ client' = r.client
                    /\ opened' = r.opened
                    /\ trace' = <<r.event>>
             ELSE /\ trace' = <<>>
                  /\ UNCHANGED <<is_connected, client, opened>>
     ELSE LET info == REGISTER_MAP(family, name) IN
          Enter(Call(op, name, NoVal, "read", info.address, info.size, 0, 0))

\* (a variant that asks for one register whatever the size)
read_request_one_register(info) == [address |-> info.address, count |-> 1]

\* read_register(address, size) of read_parameter: src/anern.py 241-247
read_request(info) == [address |-> info.address, count |-> info.size]

\* read_parameter(name), called by op: src/anern.py 237-247
read_parameter(op, name) ==
  /\ pre' = Snapshot
  /\ IF name = Unhashable
     THEN /\ pc' = "done"
          /\ ret' = Raised
          /\ call' = NoTxn(op, name, NoVal)
          /\ trace' = <<>>
          /\ UNCHANGED <<is_connected, client, opened, results>>
     ELSE IF name \notin ParameterNames(family)
     THEN /\ Return(op, name, RetNone)
          /\ call' = NoTxn(op, name, NoVal)
          /\ trace' = <<>>
          /\ UNCHANGED <<is_connected, client, opened>>
     ELSE LET req == read_request(REGISTER_MAP(family, name)) IN
          Enter(Call(op, name, NoVal, "read", req.address, req.count, 0, 0))

\* write_parameter(name, val), called by op: src/anern.py 276-287
write_parameter_from(op, label, name, val) ==
  /\ pre' = Snapshot
  /\ IF name = Unhashable \/ (name \in ParameterNames(family) /\ val.t # "num")
     THEN /\ pc' = "done"
          /\ ret' = Raised
          /\ call' = Labelled(NoTxn(op, name, val), label)
          /\ trace' = <<>>
          /\ UNCHANGED <<is_connected, client, opened, results>>
     ELSE IF name \notin ParameterNames(family)
     THEN /\ Return(op, name, RetBool(FALSE))
          /\ call' = Labelled(NoTxn(op, name, val), label)
          /\ trace' = <<>>
          /\ UNCHANGED <<is_connected, client, opened>>
     ELSE LET info == REGISTER_MAP(family, name) IN
          Enter(Labelled(Call(op, name, val, "write", info.address, 1,
                              register_value(val, info.factor), 0), label))

write_parameter(op, name, val) == write_parameter_from(op, "", name, val)

(***************************************************************************)
(* get_status: src/anern.py 289-322, src/deye_protocol.py 336-370.         *)
(***************************************************************************)
StatusParameters(f) ==
  IF f = "anern"
  THEN <<"operation_mode", "grid_voltage", "output_voltage", "output_power",
         "pv_voltage", "pv_power", "battery_voltage", "battery_current",
         "battery_soc", "inverter_temperature">>
  ELSE <<"grid_voltage", "grid_power", "pv1_voltage", "pv1_power", "pv2_voltage",
         "pv2_power", "battery_voltage", "battery_soc", "battery_power",
         "load_voltage", "load_power", "inverter_temperature", "operation_mode">>

\* the two reads that follow the loop, and the keys their results are stored under
StatusErrors(f) ==
  IF f = "anern"
  THEN << <<"error_flags_1", "error_flags_1">>, <<"error_flags_2", "error_flags_2">> >>
  ELSE << <<"error_codes", "errors">>, <<"warning_codes", "warnings">> >>

\* every read of one get_status call, in order
StatusReads(f) ==
  StatusParameters(f) \o <<StatusErrors(f)[1][1], StatusErrors(f)[2][1]>>

\* (a variant that takes a zero value too)
Positive_or_zero(r) == r.kind \in {"value", "wide"}

\* `x and x["value"] > 0` of a read_parameter result
Positive(r) ==
  \/ r.kind = "value" /\ r.num > 0
  \/ r.kind = "wide" /\ \E i \in 1..Len(r.limbs) : r.limbs[i] > 0

\* the dict get_status returns, given what its reads returned
get_status_dict(f, res) ==
  LET params == {StatusParameters(f)[i] : i \in 1..Len(StatusParameters(f))}
      kept == {n \in params : res[n].kind # "none"}
      errs == {i \in 1..2 : Positive(res[StatusErrors(f)[i][1]])}
      errkeys == {StatusErrors(f)[i][2] : i \in errs}
      flag == IF f = "anern" /\ errs # {} THEN {"has_errors"} ELSE {}
  IN  [k \in kept \cup errkeys \cup flag |->
         IF k \in kept THEN res[k]
         ELSE IF k = "has_errors" THEN RetBool(TRUE)
         ELSE LET i == CHOOSE j \in errs : StatusErrors(f)[j][2] = k
              IN  res[StatusErrors(f)[i][1]]]

(***************************************************************************)
(* The arguments the callers pass.                                         *)
(***************************************************************************)
NameArgs(f) ==
  IF f = "anern"
  THEN {"grid_voltage", "grid_frequency", "operation_mode", "no_such_parameter",
        Unhashable}
  ELSE {"grid_voltage", "pv_total_energy", "time_now", "error_codes",
        "no_such_parameter", Unhashable}

ValueArgs == {Num(0), Num(4806), Num(-100), Str}

LabelArgs ==
  {"STANDBY", "LINE_MODE", "HYBRID", "PV_FIRST", "GRID_FIRST", "SOLAR_FIRST",
   "NO_SUCH_LABEL", Unhashable}

(***************************************************************************)
(* Initial state: __init__, src/anern.py 102-108.                          *)
(***************************************************************************)
NoCall == NoTxn("", "", NoVal)

\* the threads of the caller; where each one is in its read_register or
\* write_register call (fn), and the loop variable of that call
Threads == 1..MaxThreads

Thread(at, fn, attempt, result) ==
  [pc |-> at, fn |-> fn, attempt |-> attempt, result |-> result]

NoThreads == [t \in Threads |-> Thread("idle", "none", 0, Pending)]

NoSnapshot == [is_connected |-> FALSE, client |-> None, opened |-> {}]

Init ==
  /\ unit_id = DefaultUnitId
  /\ family \in Families
  /\ retries \in 0..MaxRetries
  /\ is_connected = FALSE
  /\ client = None
  /\ opened = {}
  /\ pc = "idle"
  /\ call = NoCall
  /\ trace = <<>>
  /\ ret = Pending
  /\ pre = NoSnapshot
  /\ results = EmptyResults
  /\ noise = 0
  /\ threads = NoThreads

(***************************************************************************)
(* The public methods.                                                     *)
(***************************************************************************)
Connect ==
  /\ pc = "idle"
  /\ \E c \in ConnectOutcomes(opened) :
       LET r == connect(is_connected, client, opened, c) IN
       /\ is_connected' = r.is_connected
       /\ client' = r.client
       /\ opened' = r.opened
       /\ ret' = RetBool(r.result)
       /\ trace' = <<r.event>>
  /\ call' = NoTxn("connect", "", NoVal)
  /\ pre' = Snapshot
  /\ pc' = "done"
  /\ UNCHANGED <<unit_id, threads, family, retries, results, noise>>

Disconnect ==
  /\ pc = "idle"
  /\ \E d \in CloseOutcomes :
       LET r == disconnect(is_connected, client, opened, d) IN
       /\ is_connected' = r.is_connected
       /\ opened' = r.opened
       /\ ret' = r.ret
       /\ trace' = r.trace
  /\ call' = NoTxn("disconnect", "", NoVal)
  /\ pre' = Snapshot
  /\ pc' = "done"
  /\ UNCHANGED <<unit_id, threads, family, retries, client, results, noise>>

ReadParameter ==
  /\ pc = "idle"
  /\ \E name \in NameArgs(family) : read_parameter("read_parameter", name)
  /\ UNCHANGED <<unit_id, threads, family, retries, noise>>

WriteParameter ==
  /\ pc = "idle"
  /\ \E name \in NameArgs(family), val \in ValueArgs :
       write_parameter("write_parameter", name, val)
  /\ UNCHANGED <<unit_id, threads, family, retries, noise>>

\* set_mode / set_charge_priority / set_output_priority: src/anern.py 324-373
set_enum(op, table, name, label) ==
  IF label = Unhashable
  THEN /\ pc' = "done"
       /\ ret' = Raised
       /\ call' = Labelled(NoTxn(op, "", NoVal), label)
       /\ trace' = <<>>
       /\ pre' = Snapshot
       /\ UNCHANGED <<is_connected, client, opened, results>>
  ELSE IF label \in Labels(table)
  THEN write_parameter_from(op, label, name, Num(100 * CodeOf(table, label)))
  ELSE /\ pc' = "done"
       /\ ret' = RetBool(FALSE)
       /\ call' = Labelled(NoTxn(op, "", NoVal), label)
       /\ trace' = <<>>
       /\ pre' = Snapshot
       /\ UNCHANGED <<is_connected, client, opened, results>>

SetMode ==
  /\ pc = "idle"
  /\ \E mode \in LabelArgs :
       set_enum("set_mode", OPERATION_MODES(family), "operation_mode", mode)
  /\ UNCHANGED <<unit_id, threads, family, retries, noise>>

SetChargePriority ==
  /\ pc = "idle"
  /\ \E priority \in LabelArgs :
       set_enum("set_charge_priority", CHARGE_PRIORITIES(family),
                "charge_source_priority", priority)
  /\ UNCHANGED <<unit_id, threads, family, retries, noise>>

SetOutputPriority ==
  /\ pc = "idle"
  /\ \E priority \in LabelArgs :
       set_enum("set_output_priority", OUTPUT_PRIORITIES(family),
                "output_source_priority", priority)
  /\ UNCHANGED <<unit_id, threads, family, retries, noise>>

\* src/anern.py 375-385
SetMaxChargingCurrent ==
  /\ pc = "idle"
  /\ \E current \in ValueArgs :
       write_parameter("set_max_charging_current", "max_charging_current", current)
  /\ UNCHANGED <<unit_id, threads, family, retries, noise>>

\* src/anern.py 387-397
SetBatteryCutoffVoltage ==
  /\ pc = "idle"
  /\ \E voltage \in ValueArgs :
       write_parameter("set_battery_cutoff_voltage", "battery_cutoff_voltage", voltage)
  /\ UNCHANGED <<unit_id, threads, family, retries, noise>>

GetStatus ==
  /\ pc = "idle"
  /\ pc' = "status"
  /\ results' = EmptyResults
  /\ noise' = 0
  /\ call' = NoTxn("get_status", "", NoVal)
  /\ trace' = <<>>
  /\ ret' = Pending
  /\ pre' = Snapshot
  /\ UNCHANGED <<unit_id, threads, family, retries, is_connected, client, opened>>

\* the next read_parameter call of get_status
StatusRead ==
  /\ pc = "status"
  /\ Cardinality(DOMAIN results) < Len(StatusReads(family))
  /\ read_parameter("get_status", StatusReads(family)[Cardinality(DOMAIN results) + 1])
  /\ UNCHANGED <<unit_id, threads, family, retries, noise>>

\* `return status`
StatusReturn ==
  /\ pc = "status"
  /\ Cardinality(DOMAIN results) = Len(StatusReads(family))
  /\ pc' = "done"
  /\ ret' = RetStatus
  /\ UNCHANGED <<unit_id, threads, family, retries, is_connected, client, opened, call, trace, pre, results,
                  noise>>

(***************************************************************************)
(* One iteration of the for loop of read_register / write_register, and    *)
(* the return that follows the loop.                                       *)
(***************************************************************************)
AttemptOf(limited, budget) ==
  /\ pc = "loop"
  /\ call.attempt < range_retries(retries)
  /\ \E o \in Outcomes :
       \E registers \in (IF o = "ok" /\ call.fn = "read"
                         THEN Responses(call.count) ELSE {<<>>}) :
         LET plain == Nominal(o, registers, IF call.fn = "read" THEN call.count ELSE 0)
             counted == limited /\ ~plain
         IN  /\ counted => noise < budget
             /\ noise' = IF counted THEN noise + 1 ELSE noise
             /\ CASE AfterAttempt(o) = "return" ->
                       /\ trace' = Append(trace, "txn_" \o o)
                       /\ call' = [call EXCEPT !.registers = registers, !.unit = unit_id]
                       /\ Return(call.op, call.name,
                                 IF call.fn = "read"
                                 THEN decode(family, call.name, registers)
                                 ELSE RetBool(TRUE))
                  [] AfterAttempt(o) = "continue" ->
                       /\ trace' = Append(trace, "txn_" \o o)
                       /\ call' = [call EXCEPT !.attempt = @ + 1, !.unit = unit_id]
                       /\ UNCHANGED <<pc, ret, results>>
                  [] AfterAttempt(o) = "sleep" ->
                       /\ trace' = trace \o <<"txn_" \o o, "sleep">>
                       /\ call' = [call EXCEPT !.attempt = @ + 1, !.unit = unit_id]
                       /\ UNCHANGED <<pc, ret, results>>
  /\ UNCHANGED <<unit_id, threads, family, retries, is_connected, client, opened, pre>>

\* every transport call of get_status counts against MaxStatusNoise
Attempt == AttemptOf(call.op = "get_status", MaxStatusNoise)

LoopExit ==
  /\ pc = "loop"
  /\ call.attempt >= range_retries(retries)
  /\ Return(call.op, call.name, Fail(call.fn))
  /\ UNCHANGED <<unit_id, threads, family, retries, is_connected, client, opened, call, trace, pre, noise>>

\* the caller has taken the return value and is about to make its next call
Resume ==
  /\ pc = "done"
  /\ pc' = "idle"
  /\ call' = NoCall
  /\ trace' = <<>>
  /\ ret' = Pending
  /\ pre' = NoSnapshot
  /\ results' = EmptyResults
  /\ noise' = 0
  /\ UNCHANGED <<unit_id, threads, family, retries, is_connected, client, opened>>

Next ==
  \/ Connect
  \/ Disconnect
  \/ ReadParameter
  \/ WriteParameter
  \/ SetMode
  \/ SetChargePriority
  \/ SetOutputPriority
  \/ SetMaxChargingCurrent
  \/ SetBatteryCutoffVoltage
  \/ GetStatus
  \/ StatusRead
  \/ StatusReturn
  \/ Attempt
  \/ LoopExit
  \/ Resume

Spec == Init /\ [][Next]_vars

(***************************************************************************)
(* read_parameter of every known parameter, on an adapter built with any   *)
(* of a few unit ids (config "unit_id", src/anern.py 105).                 *)
(***************************************************************************)
UnitIds == {1, 2, 247}

ReadInit ==
  /\ unit_id \in UnitIds
  /\ family \in Families
  /\ retries \in 0..MaxRetries
  /\ is_connected = FALSE
  /\ client = None
  /\ opened = {}
  /\ pc = "idle"
  /\ call = NoCall
  /\ trace = <<>>
  /\ ret = Pending
  /\ pre = NoSnapshot
  /\ results = EmptyResults
  /\ noise = 0
  /\ threads = NoThreads

ReadKnownParameter ==
  /\ pc = "idle"
  /\ \E name \in ParameterNames(family) : read_parameter("read_parameter", name)
  /\ UNCHANGED <<unit_id, threads, family, retries, noise>>

ReadNext ==
  \/ ReadKnownParameter
  \/ Attempt
  \/ LoopExit
  \/ Resume

SpecRead == ReadInit /\ [][ReadNext]_vars

(***************************************************************************)
(* read_parameter's conversion alone (src/deye_protocol.py 282-310,        *)
(* src/anern.py 251-259): a response of size words has arrived for a known *)
(* parameter, and the value is made of it.                                 *)
(***************************************************************************)
DecodeWords == {0, 1, 3, 5, 9, 14, 99, 32768, 65535}

RECURSIVE WordSeqs(_)
WordSeqs(n) ==
  IF n = 0 THEN {<<>>}
  ELSE {Append(w, x) : w \in WordSeqs(n - 1), x \in DecodeWords}

DecodeInit ==
  /\ unit_id = DefaultUnitId
  /\ family \in Families
  /\ retries = MaxRetries
  /\ is_connected = TRUE
  /\ client = NewClient(None, {})
  /\ opened = {NewClient(None, {})}
  /\ pc = "response"
  /\ \E n \in ParameterNames(family) :
       \E w \in WordSeqs(REGISTER_MAP(family, n).size) :
         call = [Call("read_parameter", n, NoVal, "read",
                      REGISTER_MAP(family, n).address,
                      REGISTER_MAP(family, n).size, 0, 0) EXCEPT !.registers = w]
  /\ trace = <<"txn_ok">>
  /\ ret = Pending
  /\ pre = Snapshot
  /\ results = EmptyResults
  /\ noise = 0
  /\ threads = NoThreads

\* the try block of read_parameter
DecodeResponse ==
  /\ pc = "response"
  /\ pc' = "done"
  /\ ret' = decode(family, call.name, call.registers)
  /\ UNCHANGED <<unit_id, threads, family, retries, is_connected, client, opened, call, trace, pre,
                  results, noise>>

DecodeNext == DecodeResponse

SpecDecode == DecodeInit /\ [][DecodeNext]_vars

(***************************************************************************)
(* Threads that share one adapter.  The classes hold no lock and import no *)
(* threading primitive (src/anern.py 8-13), and the calls into the         *)
(* transport (src/anern.py 170 and 207) and time.sleep (183, 187) block    *)
(* with the interpreter lock released: while one thread waits for its      *)
(* response another thread runs.  Each thread makes one read_register or   *)
(* write_register call; a step is the code between two blocking calls.     *)
(***************************************************************************)
\* the call up to the loop: the lazy connect
ThreadEnter(t) ==
  /\ threads[t].pc = "idle"
  /\ \E fn \in {"read", "write"} :
       IF NeedsConnect(is_connected)
       THEN \E c \in ConnectOutcomes(opened) :
              LET r == connect(is_connected, client, opened, c) IN
              /\ is_connected' = r.is_connected
              /\ client' = r.client
              /\ opened' = r.opened
              /\ threads' = [threads EXCEPT ![t] =
                               IF AbortsOnConnect(r.result)
                               THEN Thread("returned", fn, 0, Fail(fn))
                               ELSE Thread("loop", fn, 0, Pending)]
       ELSE /\ threads' = [threads EXCEPT ![t] = Thread("loop", fn, 0, Pending)]
            /\ UNCHANGED <<is_connected, client, opened>>
  /\ UNCHANGED <<unit_id, family, retries, pc, call, trace, ret, pre, results, noise>>

\* the request of one attempt goes out; the thread waits for the response
ThreadSend(t) ==
  /\ threads[t].pc = "loop"
  /\ threads[t].attempt < range_retries(retries)
  /\ threads' = [threads EXCEPT ![t].pc = "in_flight"]
  /\ UNCHANGED <<unit_id, family, retries, is_connected, client, opened, pc, call, trace, ret, pre,
                  results, noise>>

\* the transport call returns or raises
ThreadReceive(t) ==
  /\ threads[t].pc = "in_flight"
  /\ \E o \in Outcomes :
       threads' = [threads EXCEPT ![t] =
                     IF AfterAttempt(o) = "return"
                     THEN Thread("returned", @.fn, @.attempt,
                                 IF @.fn = "read" THEN RetValue(0, 1, "") ELSE RetBool(TRUE))
                     ELSE Thread("loop", @.fn, @.attempt + 1, Pending)]
  /\ UNCHANGED <<unit_id, family, retries, is_connected, client, opened, pc, call, trace, ret, pre,
                  results, noise>>

\* the return that follows the loop
ThreadLoopExit(t) ==
  /\ threads[t].pc = "loop"
  /\ threads[t].attempt >= range_retries(retries)
  /\ threads' = [threads EXCEPT ![t] = Thread("returned", @.fn, @.attempt, Fail(@.fn))]
  /\ UNCHANGED <<unit_id, family, retries, is_connected, client, opened, pc, call, trace, ret, pre,
                  results, noise>>

ThreadsNext ==
  \E t \in Threads :
    \/ ThreadEnter(t)
    \/ ThreadSend(t)
    \/ ThreadReceive(t)
    \/ ThreadLoopExit(t)

SpecThreads == Init /\ [][ThreadsNext]_vars

(***************************************************************************)
(* get_status with an unrestricted transport under its two last reads (the *)
(* error and warning registers): src/anern.py 310-320,                     *)
(* src/deye_protocol.py 360-368.  The transport calls of the parameter     *)
(* loop before them are nominal.  The adapter is one on which connect()    *)
(* has succeeded: client is the first transport.                           *)
(***************************************************************************)
StatusInit ==
  /\ unit_id = DefaultUnitId
  /\ family \in Families
  /\ retries \in 0..MaxRetries
  /\ is_connected = TRUE
  /\ client = NewClient(None, {})
  /\ opened = {NewClient(None, {})}
  /\ pc = "idle"
  /\ call = NoCall
  /\ trace = <<>>
  /\ ret = Pending
  /\ pre = NoSnapshot
  /\ results = EmptyResults
  /\ noise = 0
  /\ threads = NoThreads

ErrorReads(f) == {StatusErrors(f)[i][1] : i \in 1..2}

StatusAttempt == AttemptOf(call.name \notin ErrorReads(family), 0)

StatusNext ==
  \/ GetStatus
  \/ StatusRead
  \/ StatusReturn
  \/ StatusAttempt
  \/ LoopExit
  \/ Resume

SpecStatus == StatusInit /\ [][StatusNext]_vars

(***************************************************************************)
(* The codec alone: write_parameter's conversion of a value to a register  *)
(* (src/anern.py 280-285), then read_parameter's conversion of that        *)
(* register back (src/anern.py 241-259), for every parameter of one        *)
(* register whose value is a scaled number.                                *)
(***************************************************************************)
ScaledNames(f) ==
  {n \in ParameterNames(f) :
     /\ REGISTER_MAP(f, n).size = 1
     /\ ~(f = "deye" /\ n \in {"time_now", "error_codes", "warning_codes"})}

CodecInit ==
  /\ unit_id = DefaultUnitId
  /\ family \in Families
  /\ retries = MaxRetries
  /\ is_connected = FALSE
  /\ client = None
  /\ opened = {}
  /\ pc = "value"
  /\ \E n \in ScaledNames(family) : \E c \in 0..MaxCentis :
       call = Call("write_parameter", n, Num(c), "write",
                   REGISTER_MAP(family, n).address, 1, 0, 0)
  /\ trace = <<>>
  /\ ret = Pending
  /\ pre = NoSnapshot
  /\ results = EmptyResults
  /\ noise = 0
  /\ threads = NoThreads

\* register_value = int(value / factor)
Encode ==
  /\ pc = "value"
  /\ pc' = "register"
  /\ call' = [call EXCEPT !.value =
                 register_value(call.val, REGISTER_MAP(family, call.name).factor)]
  /\ UNCHANGED <<unit_id, threads, family, retries, is_connected, client, opened, trace, ret, pre, results,
                  noise>>

\* value = registers[0] * factor, of the register that was written
Decode ==
  /\ pc = "register"
  /\ pc' = "decoded"
  /\ call' = [call EXCEPT !.registers = <<call.value>>]
  /\ ret' = decode(family, call.name, <<call.value>>)
  /\ UNCHANGED <<unit_id, threads, family, retries, is_connected, client, opened, trace, pre, results, noise>>

CodecNext ==
  \/ Encode
  \/ Decode

SpecCodec == CodecInit /\ [][CodecNext]_vars

(***************************************************************************)
(* Vocabulary of the properties.                                           *)
(***************************************************************************)
TxnEvents == {"txn_ok", "txn_error", "txn_conn_exc"}

FailedTxnEvents == {"txn_error", "txn_conn_exc"}

ConnectEvents == {"connect_ok", "connect_fail", "connect_raise", "connect_ctor_raise"}

Count(tr, S) == Cardinality({i \in 1..Len(tr) : tr[i] \in S})

\* the public call has returned and it ran read_register / write_register
RanRegisterCall(ops) == pc = "done" /\ call.op \in ops /\ call.fn # "none"

ParameterOps == {"read_parameter", "write_parameter"}

\* the loop was entered on a connected adapter and every attempt failed
AllAttemptsFailed ==
  /\ pre.is_connected \/ Count(trace, {"connect_ok"}) = 1
  /\ Count(trace, {"txn_ok"}) = 0

(***************************************************************************)
(* C1.  Retry exhaustion: when read_parameter / write_parameter of a known *)
(* parameter runs on a connected adapter and every transaction attempt     *)
(* fails, the call returns None / False and it has issued exactly          *)
(* self.retries transport calls.                                           *)
(***************************************************************************)
C1_RetryExhaustion ==
  (RanRegisterCall(ParameterOps) /\ AllAttemptsFailed)
    => /\ ret = Fail(call.fn)
       /\ Count(trace, TxnEvents) = retries

C1_Witness ==
  /\ RanRegisterCall({"read_parameter"})
  /\ pre.is_connected
  /\ retries >= 2
  /\ Count(trace, {"txn_error"}) >= 1
  /\ Count(trace, {"txn_conn_exc"}) >= 1
  /\ Count(trace, TxnEvents) = retries
  /\ ret = RetNone

(***************************************************************************)
(* C2.  Lazy connect: a read_parameter / write_parameter of a known        *)
(* parameter entered with is_connected False makes exactly one connect()   *)
(* attempt, before any transaction attempt; if that attempt fails the call *)
(* returns None / False without a transaction attempt; entered with        *)
(* is_connected True it makes no connect() attempt.                        *)
(***************************************************************************)
C2_LazyConnect ==
  RanRegisterCall(ParameterOps)
    => IF pre.is_connected
       THEN Count(trace, ConnectEvents) = 0
       ELSE /\ Count(trace, ConnectEvents) = 1
            /\ trace[1] \in ConnectEvents
            /\ trace[1] # "connect_ok"
                 => /\ ret = Fail(call.fn)
                    /\ Count(trace, TxnEvents) = 0

C2_Witness ==
  /\ RanRegisterCall({"read_parameter"})
  /\ ~pre.is_connected
  /\ trace[1] = "connect_ok"
  /\ Count(trace, TxnEvents) >= 2
  /\ ret.kind = "value"

(***************************************************************************)
(* C3.  After a read or write transaction has exhausted its retries on a   *)
(* connected adapter, is_connected is False.                               *)
(***************************************************************************)
C3_DisconnectedAfterExhaustion ==
  (/\ RanRegisterCall(ParameterOps)
   /\ AllAttemptsFailed
   /\ retries >= 1
   /\ Count(trace, TxnEvents) = retries)
    => ~is_connected

(***************************************************************************)
(* C4.  connect() called while the adapter is connected is a no-op         *)
(* success: it returns True, opens no transport, and leaves client and     *)
(* is_connected as they were.                                              *)
(***************************************************************************)
C4_ConnectIdempotent ==
  (pc = "done" /\ call.op = "connect" /\ pre.is_connected)
    => /\ ret = RetBool(TRUE)
       /\ is_connected
       /\ client = pre.client
       /\ opened = pre.opened

(***************************************************************************)
(* C5.  Between a failed transaction attempt and the next attempt of the   *)
(* same register call there is a sleep, whether the attempt raised or      *)
(* returned a response flagged isError().                                  *)
(***************************************************************************)
C5_CoolDownAfterEveryFailure ==
  \A i \in 1..Len(trace) :
    (i < Len(trace) /\ trace[i] \in FailedTxnEvents) => trace[i + 1] = "sleep"

(***************************************************************************)
(* C6.  Within one register call, an attempt that failed with a connection *)
(* failure is followed by a connect() attempt before the next transaction  *)
(* attempt, and an attempt that failed with an error response is followed  *)
(* by the next transaction attempt without a connect().                    *)
(***************************************************************************)
C6_ReconnectAfterConnectionFailure ==
  \A i \in 1..Len(trace) : \A j \in 1..Len(trace) :
    (/\ i < j
     /\ trace[i] \in FailedTxnEvents
     /\ trace[j] \in TxnEvents
     /\ \A k \in (i + 1)..(j - 1) : trace[k] \notin TxnEvents)
      => ((trace[i] = "txn_conn_exc")
            <=> (\E k \in (i + 1)..(j - 1) : trace[k] \in ConnectEvents))

(***************************************************************************)
(* C7.  The first response that is not flagged as an error ends the        *)
(* attempt sequence: nothing is asked of the transport after it, the loop  *)
(* is left, a read returns what read_parameter makes of that response's    *)
(* registers and a write returns True, on whichever attempt it comes.      *)
(***************************************************************************)
C7_FirstSuccessEnds ==
  /\ \A i \in 1..Len(trace) : trace[i] = "txn_ok" => i = Len(trace)
  /\ (trace # <<>> /\ trace[Len(trace)] = "txn_ok") => pc # "loop"
  /\ (RanRegisterCall(ParameterOps) /\ Count(trace, {"txn_ok"}) >= 1)
       => /\ Count(trace, TxnEvents) = call.attempt + 1
          /\ ret = IF call.fn = "read"
                   THEN decode(family, call.name, call.registers)
                   ELSE RetBool(TRUE)

C7_Witness ==
  /\ RanRegisterCall({"write_parameter"})
  /\ retries = MaxRetries
  /\ Count(trace, FailedTxnEvents) = retries - 1
  /\ trace[Len(trace)] = "txn_ok"
  /\ ret = RetBool(TRUE)

(***************************************************************************)
(* C8.  As claimed: a connection failure at lazy connect time is retried,  *)
(* connect() being attempted self.retries times before the call returns    *)
(* None / False.                                                           *)
(***************************************************************************)
C8_ConnectRetried ==
  (/\ RanRegisterCall(ParameterOps)
   /\ ~pre.is_connected
   /\ Count(trace, {"connect_ok"}) = 0
   /\ retries >= 1)
    => Count(trace, ConnectEvents) = retries

(***************************************************************************)
(* C8, amended.  A connection failure at lazy connect time is not retried: *)
(* the one failed connect() attempt makes the read / write call return     *)
(* None / False at once, whatever self.retries is, and nothing more is     *)
(* asked of the transport.                                                 *)
(***************************************************************************)
C8_ConnectFailureNotRetried ==
  (/\ RanRegisterCall(ParameterOps)
   /\ ~pre.is_connected
   /\ trace # <<>>
   /\ trace[1] \in ConnectEvents \ {"connect_ok"})
    => /\ Len(trace) = 1
       /\ ret = Fail(call.fn)
       /\ ~is_connected

C8_Witness ==
  /\ RanRegisterCall({"write_parameter"})
  /\ ~pre.is_connected
  /\ retries = MaxRetries
  /\ trace = <<"connect_fail">>
  /\ ret = RetBool(FALSE)

(***************************************************************************)
(* C9.  Decode mismatch: when the response that read_parameter accepts     *)
(* carries a number of registers other than the parameter's size, the call *)
(* returns no {value, unit} result.                                        *)
(***************************************************************************)
C9_DecodeMismatch ==
  (/\ RanRegisterCall({"read_parameter"})
   /\ Count(trace, {"txn_ok"}) = 1
   /\ Len(call.registers) # call.count)
    => ret.kind \notin {"value", "wide", "text"}

(***************************************************************************)
(* C10.  No public method lets an exception escape.                        *)
(***************************************************************************)
C10_NoExceptionEscapes == ret.kind # "raised"

\* the adapter's fields are what they were when the call was entered
FieldsUntouched ==
  /\ is_connected = pre.is_connected
  /\ client = pre.client
  /\ opened = pre.opened

(***************************************************************************)
(* C11.  When threads call read / write operations on one adapter          *)
(* concurrently the adapter serializes them: at most one transport         *)
(* transaction is in flight at any time, and no attempt of one call is     *)
(* made between two attempts of another call.                              *)
(***************************************************************************)
InFlight == {t \in Threads : threads[t].pc = "in_flight"}

\* u has made an attempt of its call and is about to make the next one
BetweenAttempts(u) ==
  /\ threads[u].pc = "loop"
  /\ threads[u].attempt >= 1
  /\ threads[u].attempt < range_retries(retries)

C11_Serialized ==
  /\ Cardinality(InFlight) <= 1
  /\ \A t \in InFlight : \A u \in Threads \ {t} : ~BetweenAttempts(u)

(***************************************************************************)
(* C12.  When disconnect() has returned, is_connected is False, whatever   *)
(* the state it was called in; called on an adapter that is already        *)
(* disconnected (as a second disconnect() is) it changes nothing.          *)
(***************************************************************************)
C12_DisconnectLeavesDisconnected ==
  (pc = "done" /\ call.op = "disconnect" /\ ret.kind = "bool")
    => /\ ~is_connected
       /\ ~pre.is_connected => (FieldsUntouched /\ ret = RetBool(FALSE))

C12_Witness ==
  /\ pc = "done"
  /\ call.op = "disconnect"
  /\ pre.is_connected
  /\ Cardinality(pre.opened) = 2
  /\ ret = RetBool(TRUE)
  /\ ~is_connected

(***************************************************************************)
(* C13.  When disconnect() has returned, no transport that this adapter    *)
(* opened is still open.                                                   *)
(***************************************************************************)
C13_DisconnectClosesEverything ==
  (pc = "done" /\ call.op = "disconnect" /\ ret.kind = "bool") => opened = {}

(***************************************************************************)
(* C14.  Unknown parameter: read_parameter of a name that is not in        *)
(* REGISTER_MAP returns None and write_parameter returns False at once:    *)
(* the call asks nothing of the transport (no connect, no transaction, no  *)
(* retry) and leaves is_connected and client as they were.                 *)
(***************************************************************************)
UnknownName ==
  /\ call.op \in ParameterOps
  /\ call.name # Unhashable
  /\ call.name \notin ParameterNames(family)

UnknownResult(op) == IF op = "read_parameter" THEN RetNone ELSE RetBool(FALSE)

C14_UnknownParameter ==
  UnknownName
    => /\ pc = "done"
       /\ ret = UnknownResult(call.op)
       /\ trace = <<>>
       /\ call.fn = "none"
       /\ FieldsUntouched

C14_Witness ==
  /\ UnknownName
  /\ pc = "done"
  /\ call.op = "write_parameter"
  /\ call.val = Num(4806)
  /\ pre.is_connected
  /\ ret = RetBool(FALSE)

(***************************************************************************)
(* C15.  set_mode, set_charge_priority and set_output_priority: a label    *)
(* that is not in the table of the adapter's own family gives False with   *)
(* no connect attempt and no transport call; a label of the table gives a  *)
(* write of that family's code for the label to that family's control      *)
(* register.  The expected registers and codes are those of the tables in  *)
(* src/anern.py 33, 56-57, 63-86 and src/deye_protocol.py 49-51, 93-116.   *)
(***************************************************************************)
SetOps == {"set_mode", "set_charge_priority", "set_output_priority"}

ExpectedSetWrites ==
  { <<"anern", "set_mode", "STANDBY", 1, 0>>,
    <<"anern", "set_mode", "LINE_MODE", 1, 1>>,
    <<"anern", "set_charge_priority", "PV_FIRST", 771, 0>>,
    <<"anern", "set_output_priority", "SOLAR_FIRST", 772, 1>>,
    <<"deye", "set_mode", "STANDBY", 256, 1>>,
    <<"deye", "set_mode", "HYBRID", 256, 5>>,
    <<"deye", "set_charge_priority", "SOLAR_FIRST", 257, 0>>,
    <<"deye", "set_charge_priority", "GRID_FIRST", 257, 1>>,
    <<"deye", "set_output_priority", "GRID_FIRST", 258, 0>>,
    <<"deye", "set_output_priority", "SOLAR_FIRST", 258, 1>> }

C15_SetEnumOwnTable ==
  (pc = "done" /\ call.op \in SetOps /\ call.label # Unhashable)
    => LET hits == {e \in ExpectedSetWrites :
                      e[1] = family /\ e[2] = call.op /\ e[3] = call.label}
       IN  IF hits = {}
           THEN /\ ret = RetBool(FALSE)
                /\ trace = <<>>
                /\ call.fn = "none"
                /\ FieldsUntouched
           ELSE /\ call.fn = "write"
                /\ \A e \in hits : call.address = e[4] /\ call.value = e[5]
                /\ (is_connected /\ retries >= 1) => Count(trace, TxnEvents) >= 1

C15_Witness ==
  /\ pc = "done"
  /\ family = "deye"
  /\ call.op = "set_mode"
  /\ call.label = "HYBRID"
  /\ call.address = 256
  /\ call.value = 5
  /\ trace # <<>>
  /\ trace[Len(trace)] = "txn_ok"
  /\ ret = RetBool(TRUE)

(***************************************************************************)
(* C16.  As claimed: the caller can tell a failure caused by an unknown    *)
(* parameter name from a failure caused by exhausted retries, i.e. a call  *)
(* whose retries are exhausted does not return what a call with an unknown *)
(* name returns.                                                           *)
(***************************************************************************)
RetriesExhausted ==
  /\ RanRegisterCall(ParameterOps)
  /\ AllAttemptsFailed
  /\ retries >= 1
  /\ Count(trace, TxnEvents) = retries

C16_Distinguishable == RetriesExhausted => ret # UnknownResult(call.op)

(***************************************************************************)
(* C16, amended.  The caller cannot tell the two failures apart by the     *)
(* outcome: read_parameter returns None and write_parameter returns False  *)
(* both for an unknown parameter name and for exhausted retries.           *)
(***************************************************************************)
C16_SameOutcome ==
  /\ (pc = "done" /\ UnknownName) => ret = UnknownResult(call.op)
  /\ RetriesExhausted => ret = UnknownResult(call.op)

C16_Witness ==
  /\ RetriesExhausted
  /\ call.op = "read_parameter"
  /\ retries = MaxRetries
  /\ ret = RetNone

(***************************************************************************)
(* C17.  The mapping that get_status returns holds an error or warning     *)
(* entry (Anern error_flags_1, error_flags_2; Deye errors, warnings)       *)
(* exactly when the read of that register succeeded and gave a value       *)
(* greater than 0, and the entry is then what the read returned; a zero or *)
(* unreadable register gives no entry.                                     *)
(***************************************************************************)
StatusReturned == pc = "done" /\ call.op = "get_status" /\ ret = RetStatus

ErrorEntries ==
  { <<"anern", "error_flags_1", "error_flags_1">>,
    <<"anern", "error_flags_2", "error_flags_2">>,
    <<"deye", "error_codes", "errors">>,
    <<"deye", "warning_codes", "warnings">> }

ReadGaveValue(r) == r.kind \in {"value", "wide"}

RECURSIVE SumOf(_)
SumOf(limbs) == IF limbs = <<>> THEN 0 ELSE Head(limbs) + SumOf(Tail(limbs))

GreaterThanZero(r) == IF r.kind = "wide" THEN SumOf(r.limbs) > 0 ELSE r.num > 0

C17_ErrorEntryIffPositive ==
  StatusReturned
    => LET status == get_status_dict(family, results)
       IN  \A e \in ErrorEntries :
             e[1] = family
               => /\ e[3] \in DOMAIN status
                     <=> (ReadGaveValue(results[e[2]]) /\ GreaterThanZero(results[e[2]]))
                  /\ e[3] \in DOMAIN status => status[e[3]] = results[e[2]]

\* one entry present, the other omitted because its read failed
C17_Witness ==
  /\ StatusReturned
  /\ family = "anern"
  /\ results["error_flags_1"].kind = "value"
  /\ results["error_flags_1"].num > 0
  /\ results["error_flags_2"].kind = "none"
  /\ "error_flags_1" \in DOMAIN get_status_dict(family, results)
  /\ "error_flags_2" \notin DOMAIN get_status_dict(family, results)

\* a register that was read as zero is omitted
C17_ZeroOmitted ==
  /\ StatusReturned
  /\ family = "deye"
  /\ results["error_codes"].kind = "wide"
  /\ SumOf(results["error_codes"].limbs) = 0
  /\ results["warning_codes"].kind = "wide"
  /\ SumOf(results["warning_codes"].limbs) > 0
  /\ DOMAIN get_status_dict(family, results) \cap {"errors", "warnings"} = {"warnings"}

(***************************************************************************)
(* C18.  Every entry of the mapping that get_status returns is a           *)
(* ParameterValue: a record of a value (a number or a string) and a unit.  *)
(***************************************************************************)
ParameterValueKinds == {"value", "wide", "text"}

C18_EntriesAreParameterValues ==
  StatusReturned
    => \A k \in DOMAIN get_status_dict(family, results) :
         get_status_dict(family, results)[k].kind \in ParameterValueKinds

(***************************************************************************)
(* C19.  Encode: the register value that write_parameter hands to the      *)
(* transport for a known parameter and a numeric value is                  *)
(* round(value / factor), the integer nearest to the quotient (a tie goes  *)
(* to the even one); 48.06 with factor 0.1 gives 481.                      *)
(***************************************************************************)
Nearest(a, b) ==
  LET q == a \div b
      r == a - q * b
  IN  IF 2 * r < b THEN q
      ELSE IF 2 * r > b THEN q + 1
      ELSE IF q % 2 = 0 THEN q ELSE q + 1

C19_EncodeRounds ==
  (call.fn = "write" /\ call.val.t = "num")
    => LET factor == REGISTER_MAP(family, call.name).factor
       IN  call.value = Nearest(call.val.c * factor.den, 100 * factor.num)

(***************************************************************************)
(* C20.  Round trip: for a parameter of one register with a scale and a    *)
(* value v >= 0, the value that read_parameter computes from the register  *)
(* that write_parameter computes for v is within one unit of the scale of  *)
(* v: |decode(encode(v)) - v| <= factor.                                   *)
(***************************************************************************)
C20_RoundTrip ==
  (pc = "decoded" /\ ret.kind = "value")
    => FloatLeq(FloatDistance(FloatValue(ret), FloatOfHundredths(call.val.c)),
                FloatFactor(REGISTER_MAP(family, call.name).factor))

(***************************************************************************)
(* The number that a "wide" result holds before its scale is applied, as   *)
(* a natural number of 15-bit limbs: sum of limbs[i] * 65536^(i-1).        *)
(***************************************************************************)
RECURSIVE WideValue(_)
WideValue(limbs) ==
  IF limbs = <<>> THEN <<>>
  ELSE BigAdd(BigFromInt(Head(limbs)),
              BigNorm(BigMul(BigFromInt(65536), WideValue(Tail(limbs)))))

Decoded == pc = "done" /\ call.op = "read_parameter" /\ trace = <<"txn_ok">>

(***************************************************************************)
(* C21.  WideScaledInt decode: for a parameter of size 2 and two 16-bit    *)
(* words, the value of read_parameter is                                   *)
(* (words[0] * 65536 + words[1]) * factor, the first word the high half,   *)
(* with the unit of the table; [1, 0] at factor 0.1 gives 6553.6.          *)
(***************************************************************************)
SizeTwoNames == {"pv_total_energy", "total_energy", "co2_reduction"}

C21_WideScaledDecode ==
  (Decoded /\ call.name \in SizeTwoNames /\ Len(call.registers) = 2)
    => /\ ret.kind = "wide"
       /\ WideValue(ret.limbs)
            = BigAdd(BigMul(BigFromInt(call.registers[1]), BigFromInt(65536)),
                     BigFromInt(call.registers[2]))
       /\ ret.den = 10
       /\ ret.unit = REGISTER_MAP(family, call.name).unit

\* [1, 0] at factor 0.1: the float product is the float 6553.6
C21_Witness ==
  /\ Decoded
  /\ call.name = "pv_total_energy"
  /\ call.registers = <<1, 0>>
  /\ BigToInt(WideValue(ret.limbs)) = 65536
  /\ FloatMul(Float(WideValue(ret.limbs), 0), FloatFactor([num |-> 1, den |-> ret.den]))
       = FloatOfHundredths(655360)
  /\ ret.unit = "kWh"

(***************************************************************************)
(* C22.  BitmaskWide decode: for error_codes and warning_codes and four    *)
(* 16-bit words, the value of read_parameter is the sum of                 *)
(* words[i] * 2^(16*i), word 0 the least significant, every bit kept and   *)
(* no scale applied; [3, 0, 0, 0] gives 3.                                 *)
(***************************************************************************)
BitmaskNames == {"error_codes", "warning_codes"}

RECURSIVE Pow65536(_)
Pow65536(i) == IF i = 0 THEN <<1>> ELSE BigMul(BigFromInt(65536), Pow65536(i - 1))

RECURSIVE WeightedSum(_, _)
WeightedSum(words, i) ==
  IF i > Len(words) THEN <<>>
  ELSE BigAdd(BigMul(BigFromInt(words[i]), Pow65536(i - 1)), WeightedSum(words, i + 1))

C22_BitmaskDecode ==
  (Decoded /\ family = "deye" /\ call.name \in BitmaskNames /\ Len(call.registers) = 4)
    => /\ ret.kind = "wide"
       /\ WideValue(ret.limbs) = WeightedSum(call.registers, 1)
       /\ ret.den = 1
       /\ \A i \in 1..4 : ret.limbs[i] = call.registers[i]

C22_Witness ==
  /\ Decoded
  /\ call.name = "error_codes"
  /\ call.registers = <<3, 0, 0, 0>>
  /\ ret.kind = "wide"
  /\ BigToInt(WideValue(ret.limbs)) = 3

\* a set high bit of the last word is kept
C22_HighBitKept ==
  /\ Decoded
  /\ call.name = "warning_codes"
  /\ call.registers = <<0, 0, 1, 32768>>
  /\ WideValue(ret.limbs) = BigAdd(BigShl(<<1>>, 63), BigShl(<<1>>, 32))

(***************************************************************************)
(* C23.  TimeTriple decode: for time_now and three words h, m, s in 0..99, *)
(* read_parameter returns the two-digit zero-padded h, m and s joined by   *)
(* colons, with an empty unit and no scale; [14, 5, 9] gives "14:05:09".   *)
(***************************************************************************)
TwoDigits(n) ==
  <<"0", "1", "2", "3", "4", "5", "6", "7", "8", "9">>[(n \div 10) + 1]
    \o <<"0", "1", "2", "3", "4", "5", "6", "7", "8", "9">>[(n % 10) + 1]

C23_TimeTripleDecode ==
  (/\ Decoded
   /\ family = "deye"
   /\ call.name = "time_now"
   /\ Len(call.registers) = 3
   /\ \A i \in 1..3 : call.registers[i] \in 0..99)
    => /\ ret.kind = "text"
       /\ ret.text = TwoDigits(call.registers[1]) \o ":" \o TwoDigits(call.registers[2])
                       \o ":" \o TwoDigits(call.registers[3])
       /\ ret.unit = ""

C23_Witness ==
  /\ Decoded
  /\ call.name = "time_now"
  /\ call.registers = <<14, 5, 9>>
  /\ ret.text = "14:05:09"
  /\ ret.unit = ""

(***************************************************************************)
(* C24.  For a known parameter name of either family, every transaction    *)
(* attempt that read_parameter makes is a read of exactly size registers   *)
(* at the address of the parameter's REGISTER_MAP entry, under the unit id *)
(* of the configuration.                                                   *)
(***************************************************************************)
C24_ReadRequest ==
  (/\ call.op = "read_parameter"
   /\ call.name \in ParameterNames(family)
   /\ Count(trace, TxnEvents) >= 1)
    => /\ call.fn = "read"
       /\ call.address = REGISTER_MAP(family, call.name).address
       /\ call.count = REGISTER_MAP(family, call.name).size
       /\ call.unit = unit_id

\* a retried read of the three registers of time_now under unit id 247
C24_Witness ==
  /\ family = "deye"
  /\ unit_id = 247
  /\ call.op = "read_parameter"
  /\ call.name = "time_now"
  /\ Count(trace, TxnEvents) = 2
  /\ call.address = 525
  /\ call.count = 3
  /\ call.unit = 247

(***************************************************************************)
(* C25.  A Connected adapter becomes Disconnected only by an explicit      *)
(* disconnect() or by the exhaustion of the retries of a transaction: when *)
(* is_connected was True at the entry of a call and is False now, the call *)
(* is disconnect() or a register call whose attempts have all failed.  In  *)
(* particular connect() on a Connected adapter leaves it Connected.        *)
(***************************************************************************)
ExhaustedNow ==
  /\ call.fn \in {"read", "write"}
  /\ AllAttemptsFailed
  /\ Count(trace, TxnEvents) = retries

C25_DisconnectedOnlyByDisconnectOrExhaustion ==
  (pre.is_connected /\ ~is_connected) => (call.op = "disconnect" \/ ExhaustedNow)

(***************************************************************************)
(* C26.  At any time at most one transport that the adapter opened is open *)
(* (opened and not yet closed).                                            *)
(***************************************************************************)
C26_AtMostOneTransportOpen == Cardinality(opened) <= 1

(***************************************************************************)
(* C27.  Every value that write_parameter hands to write_register is an    *)
(* unsigned 16-bit integer, in 0..65535, whatever the numeric input.       *)
(***************************************************************************)
C27_RegisterValueIsU16 ==
  (call.fn = "write" /\ call.val.t = "num") => call.value \in 0..65535

(***************************************************************************)
(* C28.  write_parameter writes only parameters of one register: for a     *)
(* parameter whose size is greater than 1 it makes no register write.      *)
(***************************************************************************)
C28_NoWriteOfWideParameters ==
  (/\ call.op = "write_parameter"
   /\ call.name \in ParameterNames(family)
   /\ REGISTER_MAP(family, call.name).size > 1)
    => (call.fn # "write" /\ Count(trace, TxnEvents) = 0)

====
